---- MODULE Spec2Model ----
(***************************************************************************)
(* Model of vmc_sender.py: the blink oscillator (compute_blink), the blend *)
(* state tracker (apply_expression_and_blink) and the transmission loop    *)
(* of main() with its transport (VMCSender / DualClient).                  *)
(*                                                                         *)
(* Numbers.  Python floats are modelled as exact rationals <<n, d>> in     *)
(* lowest terms (d > 0); binary64 rounding is not modelled.  Clock values  *)
(* are integers counting 1/UnitsPerSecond seconds.  The transcendental     *)
(* pose pipeline (sin, exp, quaternion) is kept symbolic: `pose` names the *)
(* value of the four smoothing accumulators, 0 meaning all of them are 0.  *)
(***************************************************************************)
EXTENDS Integers, Sequences, FiniteSets, TLC

VARIABLES
    \* ---- blend state tracker (apply_expression_and_blink) ----
    blend_state,   \* dict key -> weight, the tracker's state map
    target,        \* the target dict built by the last call
    call,          \* arguments and starting state of the last call
    ncalls,        \* number of calls made so far
    \* ---- blink oscillator (compute_blink) ----
    bphase, bt, bval, bprev,
    \* ---- transmission loop (main) ----
    pc, args, clock, start, now, next_ok, last_time, frame_dt, pose, tickno,
    primary,       \* messages the primary client sent during the current tick
    mirror,        \* messages the mirror client sent during the current tick
    selftest,      \* messages sent by the self-test client
    hb_due,        \* the value of `now >= next_ok` in the current tick
    failure,       \* the send that raised, if any
    okTimes,       \* clock values at which /VMC/Ext/OK reached the primary
    nsent          \* total number of messages the primary client has sent

blendVars == <<blend_state, target, call, ncalls>>
blinkVars == <<bphase, bt, bval, bprev>>
loopVars  == <<pc, args, clock, start, now, next_ok, last_time, frame_dt, pose,
               tickno, primary, mirror, selftest, hb_due, failure, okTimes, nsent>>
vars == <<blendVars, blinkVars, loopVars>>

----------------------------------------------------------------------------
(* Bounds *)
MaxCalls  == 2      \* calls of the tracker in SpecBlend
MaxBlinkT == 4000   \* largest argument of compute_blink in SpecBlink (units)
MaxFps    == 2      \* largest --fps in SpecLoop
MaxSeconds == 5     \* simulated seconds the loop runs in SpecLoop

UnitsPerSecond == 1200

----------------------------------------------------------------------------
(* Exact rational arithmetic standing for float arithmetic *)
Abs(x) == IF x < 0 THEN -x ELSE x

RECURSIVE GCD(_, _)
GCD(a, b) == IF b = 0 THEN a ELSE GCD(b, a % b)

Norm(n, d) ==
    LET g == GCD(Abs(n), d) IN <<n \div g, d \div g>>

LCM(a, b) == (a \div GCD(a, b)) * b

Zero == <<0, 1>>
One  == <<1, 1>>

RAdd(a, b) ==
    LET l == LCM(a[2], b[2]) IN Norm(a[1] * (l \div a[2]) + b[1] * (l \div b[2]), l)
RNeg(a) == <<-a[1], a[2]>>
RSub(a, b) == RAdd(a, RNeg(b))
RMul(a, b) == Norm(a[1] * b[1], a[2] * b[2])
RLe(a, b) == a[1] * b[2] <= b[1] * a[2]
RMin(a, b) == IF RLe(b, a) THEN b ELSE a
RMax(a, b) == IF RLe(b, a) THEN a ELSE b
InUnit(a) == a[1] >= 0 /\ a[1] <= a[2]

\* faulty variant: no clamping
clamp01_noclamp(value) == value
clamp01(value) == RMax(Zero, RMin(One, value))

----------------------------------------------------------------------------
(* Static tables *)
None == "<None>"

EXPRESSION_PRESETS ==
    [ neutral  |-> << >>,
      happy    |-> << <<"Joy", One>>, <<"happy", One>> >>,
      anger    |-> << <<"Angry", One>>, <<"angry", One>> >>,
      sad      |-> << <<"Sorrow", One>>, <<"sad", One>> >>,
      fun      |-> << <<"Fun", One>>, <<"relaxed", One>> >>,
      surprise |-> << <<"Surprised", One>>, <<"surprised", One>> >> ]

BLEND_KEYS_TO_CLEAR ==
    << "Neutral", "neutral", "Joy", "happy", "Angry", "angry", "Sorrow", "sad",
       "Fun", "relaxed", "Surprised", "surprised",
       "Blink", "Blink_L", "Blink_R", "blink", "blinkLeft", "blinkRight" >>

BLINK_KEYS == << "Blink", "Blink_L", "Blink_R", "blink", "blinkLeft", "blinkRight" >>

Range(s) == { s[i] : i \in 1..Len(s) }

\* dict.get(key, default)
Get(d, k, default) == IF k \in DOMAIN d THEN d[k] ELSE default

\* {k: 0.0 for k in BLEND_KEYS_TO_CLEAR}
ZeroMap == [ k \in Range(BLEND_KEYS_TO_CLEAR) |-> Zero ]

\* d[k] = v on a dict
Put(d, k, v) == [ x \in DOMAIN d \cup {k} |-> IF x = k THEN v ELSE d[x] ]

\* Python truthiness of custom_expr_key (None and "" are falsy)
Truthy(s) == s # None /\ s # ""

----------------------------------------------------------------------------
(* compute_blink *)
BlinkPeriod == (32 * UnitsPerSecond) \div 10     \* 3.2 s
BlinkWidth  == (11 * UnitsPerSecond) \div 100    \* 0.11 s

\* faulty variant: the fold abs(...) is missing
compute_blink_noabs(t) ==
    LET phase == t % BlinkPeriod IN
    IF phase < BlinkWidth
    THEN RSub(One, RSub(RMul(Norm(phase, BlinkWidth), <<2, 1>>), One))
    ELSE Zero
compute_blink(t) ==
    LET phase == t % BlinkPeriod IN
    IF phase < BlinkWidth
    THEN LET x == Norm(phase, BlinkWidth)
             y == RSub(RMul(x, <<2, 1>>), One)
         IN RSub(One, <<Abs(y[1]), y[2]>>)
    ELSE Zero

----------------------------------------------------------------------------
(* apply_expression_and_blink *)

\* for name, value in preset: target[name] = float(value) * clamp01(intensity)
RECURSIVE ApplyPreset(_, _, _)
ApplyPreset(tgt, preset, intensity) ==
    IF preset = << >> THEN tgt
    ELSE ApplyPreset(Put(tgt, Head(preset)[1], RMul(Head(preset)[2], clamp01(intensity))),
                     Tail(preset), intensity)

RECURSIVE PutAll(_, _, _)
PutAll(tgt, keys, v) ==
    IF keys = << >> THEN tgt ELSE PutAll(Put(tgt, Head(keys), v), Tail(keys), v)

ExprTarget(expr, intensity, custom_expr_key) ==
    IF Truthy(custom_expr_key)
    THEN Put(ZeroMap, custom_expr_key, clamp01(intensity))
    ELSE ApplyPreset(ZeroMap,
                     IF expr \in DOMAIN EXPRESSION_PRESETS
                     THEN EXPRESSION_PRESETS[expr] ELSE << >>,
                     intensity)

\* faulty variant: the blink keys are written before the expression keys
Target_blinkfirst(expr, intensity, blink, custom_expr_key) ==
    LET t0 == PutAll(ZeroMap, BLINK_KEYS, clamp01(blink)) IN
    IF Truthy(custom_expr_key)
    THEN Put(t0, custom_expr_key, clamp01(intensity))
    ELSE t0
\* faulty variant: the preset weight is not scaled by the intensity
Target_unscaled(expr, intensity, blink, custom_expr_key) ==
    PutAll(IF Truthy(custom_expr_key)
           THEN Put(ZeroMap, custom_expr_key, clamp01(intensity))
           ELSE ApplyPreset(ZeroMap,
                            IF expr \in DOMAIN EXPRESSION_PRESETS
                            THEN EXPRESSION_PRESETS[expr] ELSE << >>,
                            One),
           BLINK_KEYS, clamp01(blink))
\* lines 165-175: the target dict
Target(expr, intensity, blink, custom_expr_key) ==
    PutAll(ExprTarget(expr, intensity, custom_expr_key), BLINK_KEYS, clamp01(blink))

\* faulty variant: alpha is used unclamped
Nxt_rawalpha(st, tgt, alpha, key) ==
    LET prev == Get(st, key, Zero) IN
    RAdd(prev, RMul(RSub(Get(tgt, key, Zero), prev), alpha))
\* lines 177-180: nxt = prev + (target.get(key, 0.0) - prev) * a
Nxt(st, tgt, alpha, key) ==
    LET a    == clamp01(alpha)
        prev == Get(st, key, Zero)
    IN RAdd(prev, RMul(RSub(Get(tgt, key, Zero), prev), a))

\* the state dict after the first n iterations of the loop at lines 178-182
\* (the keys of BLEND_KEYS_TO_CLEAR are pairwise distinct)
BlendLoop(st, tgt, alpha, n) ==
    LET done == { BLEND_KEYS_TO_CLEAR[j] : j \in 1..n } IN
    [ k \in DOMAIN st \cup done |->
        IF k \in done THEN Nxt(st, tgt, alpha, k) ELSE st[k] ]

----------------------------------------------------------------------------
(* Messages: VMCSender and DualClient *)
NoQ       == [kind |-> "none", id |-> 0]
IdentityQ == [kind |-> "identity", id |-> 0]     \* (0.0, 0.0, 0.0, 1.0)

\* quat_from_euler_xyz of the smoothed angles named by p: angles 0 give
\* cos = 1 and sin = 0, hence (0, 0, 0, 1)
quat_from_euler_xyz(p) == IF p = 0 THEN IdentityQ ELSE [kind |-> "euler", id |-> p]

\* a message: address, the string argument, the y coordinate (named by a pose
\* id, x and z are always 0.0), the quaternion, the numeric argument and the
\* number of OSC arguments
Msg(addr, name, y, q, val, n) ==
    [addr |-> addr, name |-> name, y |-> y, q |-> q, val |-> val, n |-> n]

OkMsg         == Msg("/VMC/Ext/OK", "", 0, NoQ, One, 1)
TickMsg(time) == Msg("/VMC/Ext/T", "", 0, NoQ, <<time, 1>>, 1)
RootMsg(name, y, q)    == Msg("/VMC/Ext/Root/Pos", name, y, q, Zero, 8)
BoneMsg(name, q)       == Msg("/VMC/Ext/Bone/Pos", name, 0, q, Zero, 8)
\* faulty variant: the tracker message names the root
TrackerMsg_root(name, q) == Msg("/VMC/Ext/Tra/Pos", "root", 0, q, Zero, 8)
TrackerMsg(name, q)    == Msg("/VMC/Ext/Tra/Pos", name, 0, q, Zero, 8)
BlendMsg(name, value)  == Msg("/VMC/Ext/Blend/Val", name, 0, NoQ, value, 2)
ApplyMsg               == Msg("/VMC/Ext/Blend/Apply", "", 0, NoQ, Zero, 0)
SelfTestMsg            == Msg("/SELFTEST", "ok", 0, NoQ, Zero, 2)

NoFailure == [leg |-> "none", msg |-> ApplyMsg]

\* faulty variant: the apply signal is sent ahead of the batch
BlendBatch_applyfirst(new) ==
    << ApplyMsg >> \o
    [ j \in 1..Len(BLEND_KEYS_TO_CLEAR) |->
        BlendMsg(BLEND_KEYS_TO_CLEAR[j], new[BLEND_KEYS_TO_CLEAR[j]]) ]
\* the messages apply_expression_and_blink hands to vmc, in order:
\* vmc.blend(key, nxt) for each key with the nxt just stored in state[key],
\* then vmc.apply()
BlendBatch(new) ==
    [ j \in 1..Len(BLEND_KEYS_TO_CLEAR) |->
        BlendMsg(BLEND_KEYS_TO_CLEAR[j], new[BLEND_KEYS_TO_CLEAR[j]]) ]
    \o << ApplyMsg >>

Min(a, b) == IF a < b THEN a ELSE b
Max(a, b) == IF a > b THEN a ELSE b

\* DualClient.__init__: the mirror exists iff mirror_host and mirror_port are
\* both truthy; main passes "127.0.0.1" and --listen-port when --mirror is set
MirrorOn == args.mirror /\ args.listen_port # 0

SendOutcomes == {"ok", "primary_raises", "mirror_raises"}

CountOk(ms, n) == Cardinality({ j \in 1..n : ms[j].addr = "/VMC/Ext/OK" })

\* faulty variant: the mirror is served although the primary send raised
Deliver_mirror_anyway(logp, logm, ms, i, oc, nextpc) ==
    LET np == IF oc = "primary_raises" THEN i - 1 ELSE i
        nm == IF ~MirrorOn THEN 0 ELSE IF oc = "mirror_raises" THEN i - 1 ELSE i
    IN /\ oc \in SendOutcomes
       /\ i \in 1..Len(ms)
       /\ oc = "ok" => i = Len(ms)
       /\ oc = "mirror_raises" => MirrorOn
       /\ primary' = logp \o SubSeq(ms, 1, np)
       /\ mirror' = logm \o SubSeq(ms, 1, nm)
       /\ nsent' = nsent + np
       /\ okTimes' = okTimes \o [ j \in 1..CountOk(ms, np) |-> clock ]
       /\ failure' = IF oc = "ok" THEN failure
                     ELSE [leg |-> IF oc = "primary_raises" THEN "primary" ELSE "mirror",
                           msg |-> ms[i]]
       /\ pc' = IF oc = "ok" THEN nextpc ELSE "raised"
\* DualClient.send called for ms[1], ms[2], ... in turn: primary first, then
\* the mirror if there is one.  The first i - 1 calls return; call i ends with
\* outcome oc (i = Len(ms) and "ok" when no call raises).  An exception is not
\* caught anywhere, so it ends the run.
Deliver(logp, logm, ms, i, oc, nextpc) ==
    LET np == IF oc = "primary_raises" THEN i - 1 ELSE i
        nm == IF ~MirrorOn THEN 0 ELSE IF oc = "ok" THEN i ELSE i - 1
    IN /\ oc \in SendOutcomes
       /\ i \in 1..Len(ms)
       /\ oc = "ok" => i = Len(ms)
       /\ oc = "mirror_raises" => MirrorOn
       /\ primary' = logp \o SubSeq(ms, 1, np)
       /\ mirror' = logm \o SubSeq(ms, 1, nm)
       /\ nsent' = nsent + np
       /\ okTimes' = okTimes \o [ j \in 1..CountOk(ms, np) |-> clock ]
       /\ failure' = IF oc = "ok" THEN failure
                     ELSE [leg |-> IF oc = "primary_raises" THEN "primary" ELSE "mirror",
                           msg |-> ms[i]]
       /\ pc' = IF oc = "ok" THEN nextpc ELSE "raised"

\* one call of DualClient.send
Send(m, nextpc) ==
    \E oc \in SendOutcomes : Deliver(primary, mirror, << m >>, 1, oc, nextpc)

----------------------------------------------------------------------------
(* The blend state tracker called on its own, with a vmc that never raises *)
ExprArgs      == {"happy", "surprise", "bogus"}
KeyOverrides  == {"Joy", "Blink_L", "MyCustomBlend"}
\* <<custom_expr_key, expr>>
CallModes     == ({None} \X ExprArgs) \cup (KeyOverrides \X {"happy", "bogus"})
IntensityArgs == { <<1, 2>>, <<3, 2>> }
BlinkArgs     == { <<-1, 2>>, <<1, 2>> }
AlphaArgs     == { <<-1, 1>>, <<1, 2>>, <<1, 1>>, <<2, 1>> }

NoCall == [expr |-> "", key |-> None, intensity |-> Zero, blink |-> Zero,
           alpha |-> Zero, prev |-> ZeroMap]

IdleBlend == blend_state = ZeroMap /\ target = ZeroMap /\ call = NoCall /\ ncalls = 0
IdleBlink == bphase = "arg" /\ bt = 0 /\ bval = Zero /\ bprev = Zero
IdleLoopLogs ==
    /\ primary = << >> /\ mirror = << >> /\ selftest = << >>
    /\ hb_due = FALSE /\ failure = NoFailure /\ okTimes = << >> /\ nsent = 0
NoArgs == [fps |-> 1, expr |-> "neutral", expr_key |-> "", intensity |-> Zero,
           idle_strength |-> 0, send_tracker |-> FALSE, mirror |-> FALSE,
           listen_port |-> 0, selftest |-> FALSE, alpha_eps |-> Zero,
           alpha_dt |-> Zero]
IdleLoop ==
    /\ pc = "idle" /\ args = NoArgs /\ clock = 0 /\ start = 0 /\ now = 0
    /\ next_ok = 0 /\ last_time = 0 /\ frame_dt = 0 /\ pose = 0 /\ tickno = 0
    /\ IdleLoopLogs

InitBlend == IdleBlend /\ IdleBlink /\ IdleLoop

\* one call apply_expression_and_blink(vmc, expr, intensity, blink,
\* custom_expr_key, state, alpha).  logp and logm are what the two clients of
\* vmc have sent before the call; send number i of the 19 ends with outcome
\* oc, for some <<i, oc>> of `ends`.  state[key] is assigned before
\* vmc.blend(key, nxt) is called, so a send that raises leaves the first
\* Min(i, 18) keys updated.
apply_expression_and_blink(expr, intensity, blink, custom_expr_key, st, alpha, logp, logm, ends, nextpc) ==
    \E tgt \in {Target(expr, intensity, blink, custom_expr_key)} :
    \E full \in {BlendLoop(st, tgt, alpha, Len(BLEND_KEYS_TO_CLEAR))} :
    \E batch \in {BlendBatch(full)} :
    \E e \in ends :
       /\ target' = tgt
       /\ blend_state' = IF e[1] >= Len(BLEND_KEYS_TO_CLEAR) THEN full
                         ELSE BlendLoop(st, tgt, alpha, e[1])
       /\ call' = [expr |-> expr, key |-> custom_expr_key, intensity |-> intensity,
                   blink |-> blink, alpha |-> alpha, prev |-> st]
       /\ Deliver(logp, logm, batch, e[1], e[2], nextpc)

\* the tracker called with a fresh vmc that never raises; state is None on
\* the first call
Update ==
    /\ ncalls < MaxCalls
    /\ \E mode \in CallModes, intensity \in IntensityArgs,
          blink \in BlinkArgs, alpha \in AlphaArgs :
          apply_expression_and_blink(mode[2], intensity, blink, mode[1],
              IF ncalls = 0 THEN ZeroMap ELSE blend_state, alpha,
              << >>, << >>, { <<Len(BLEND_KEYS_TO_CLEAR) + 1, "ok">> }, pc)
    /\ ncalls' = ncalls + 1
    /\ UNCHANGED <<blinkVars, args, clock, start, now, next_ok, last_time,
                   frame_dt, pose, tickno, selftest, hb_due>>

NextBlend == Update
SpecBlend == InitBlend /\ [][NextBlend]_vars

----------------------------------------------------------------------------
(* The blink oscillator called on its own: at t, then one period later *)
InitBlink ==
    /\ IdleBlend /\ IdleLoop
    /\ bphase = "arg" /\ bt \in 0..MaxBlinkT /\ bval = Zero /\ bprev = Zero

BlinkCall ==
    /\ bphase \in {"arg", "shifted"}
    /\ bval' = compute_blink(bt)
    /\ bphase' = IF bphase = "arg" THEN "ret" ELSE "ret2"
    /\ UNCHANGED <<bt, bprev, blendVars, loopVars>>

BlinkShift ==
    /\ bphase = "ret"
    /\ bt' = bt + BlinkPeriod
    /\ bprev' = bval
    /\ bphase' = "shifted"
    /\ UNCHANGED <<bval, blendVars, loopVars>>

NextBlink == BlinkCall \/ BlinkShift
SpecBlink == InitBlink /\ [][NextBlink]_vars

----------------------------------------------------------------------------
(* main(): the transmission loop on a simulated clock.  time.sleep(dt)      *)
(* advances the clock by dt and nothing else does.                          *)

\* args.expr_key.strip() on the keys used here
strip(s) ==
    CASE s = " " -> ""
      [] s = "Blink_L " -> "Blink_L"
      [] OTHER -> s

\* 1.0 - math.exp(-frame_dt / max(1e-3, args.expr_smooth)) is a function of
\* frame_dt for the run's --expr-smooth.  On the simulated clock frame_dt is
\* the 1e-6 floor in the first tick and dt afterwards, so a run has two
\* values, alpha_eps <= alpha_dt, standing for the two exponentials.
AlphaPairs == { <<Zero, Zero>>, << <<1, 1024>>, <<1, 2>> >>, << <<1, 1024>>, One >> }

\* <<expr, expr_key>>; argparse restricts --expr to the preset names
RunModes == { <<"happy", "">>, <<"surprise", " ">>, <<"neutral", "MyCustomBlend">>,
              <<"happy", "Blink_L ">> }

\* <<send_tracker, mirror, listen_port, selftest, idle_strength, intensity>>
RunFlags == { <<FALSE, FALSE, 39541, FALSE, 1, <<3, 2>> >>,
              <<TRUE,  TRUE,  39541, FALSE, 0, <<1, 2>> >>,
              <<FALSE, TRUE,  0,     TRUE,  1, <<1, 2>> >>,
              <<TRUE,  FALSE, 39541, TRUE,  1, One >> }

ArgSet ==
    { [fps |-> f, expr |-> m[1], expr_key |-> m[2], intensity |-> fl[6],
       idle_strength |-> fl[5], send_tracker |-> fl[1], mirror |-> fl[2],
       listen_port |-> fl[3], selftest |-> fl[4],
       alpha_eps |-> ap[1], alpha_dt |-> ap[2]] :
      f \in 1..MaxFps, m \in RunModes, fl \in RunFlags, ap \in AlphaPairs }

\* faulty variant: a three second heartbeat
HeartbeatInterval_3s == 3 * UnitsPerSecond
\* next_ok = start + 2.0 and next_ok = now + 2.0
HeartbeatInterval == 2 * UnitsPerSecond

\* dt = 1.0 / max(1, args.fps)
Dt == UnitsPerSecond \div Max(1, args.fps)

\* custom_expr_key = args.expr_key.strip() or None
custom_expr_key == IF strip(args.expr_key) = "" THEN None ELSE strip(args.expr_key)

\* frame_dt 0 stands for the 1e-6 floor of max(1e-6, now - last_time)
expr_alpha == IF frame_dt = 0 THEN args.alpha_eps ELSE args.alpha_dt

InitLoop ==
    /\ IdleBlend /\ IdleBlink
    /\ pc = "main" /\ args \in ArgSet
    /\ clock = 0 /\ start = 0 /\ now = 0 /\ next_ok = 0 /\ last_time = 0
    /\ frame_dt = 0 /\ pose = 0 /\ tickno = 0
    /\ IdleLoopLogs

loopLocals == <<start, now, next_ok, last_time, frame_dt, pose, tickno, hb_due>>

\* lines 213-221: the listener is another process's concern; --selftest
\* sends one /SELFTEST message through a client of its own
SelfTest ==
    /\ pc = "main"
    /\ IF args.selftest
       THEN \E ok \in BOOLEAN :
              /\ selftest' = IF ok THEN << SelfTestMsg >> ELSE selftest
              /\ pc' = IF ok THEN "startup" ELSE "raised"
              /\ failure' = IF ok THEN failure
                            ELSE [leg |-> "selftest", msg |-> SelfTestMsg]
       ELSE pc' = "startup" /\ UNCHANGED <<selftest, failure>>
    /\ UNCHANGED <<blendVars, blinkVars, args, clock, loopLocals, primary, mirror,
                   okTimes, nsent>>

\* lines 223-242: vmc.ok(), then the loop's variables
Startup ==
    /\ pc = "startup"
    /\ Send(OkMsg, "top")
    /\ IF pc' = "top"
       THEN /\ start' = clock
            /\ next_ok' = clock + HeartbeatInterval
            /\ last_time' = clock
            /\ blend_state' = ZeroMap
            /\ pose' = 0
       ELSE UNCHANGED <<start, next_ok, last_time, blend_state, pose>>
    /\ UNCHANGED <<target, call, ncalls, blinkVars, args, clock, now, frame_dt,
                   tickno, selftest, hb_due>>

\* lines 245-250: now, t, frame_dt, last_time and the heartbeat test.  The
\* logs of the previous tick are dropped here.
LoopTop ==
    /\ pc = "top"
    /\ clock - start <= MaxSeconds * UnitsPerSecond
    /\ now' = clock
    /\ frame_dt' = Max(0, clock - last_time)
    /\ last_time' = clock
    /\ hb_due' = (clock >= next_ok)
    /\ pc' = IF clock >= next_ok THEN "heartbeat" ELSE "tick"
    /\ tickno' = tickno + 1
    /\ primary' = << >> /\ mirror' = << >>
    /\ UNCHANGED <<blendVars, blinkVars, args, clock, start, next_ok, pose,
                   selftest, failure, okTimes, nsent>>

\* lines 251-252
Heartbeat ==
    /\ pc = "heartbeat"
    /\ Send(OkMsg, "tick")
    /\ next_ok' = IF pc' = "tick" THEN now + HeartbeatInterval ELSE next_ok
    /\ UNCHANGED <<blendVars, blinkVars, args, clock, start, now, last_time,
                   frame_dt, pose, tickno, selftest, hb_due>>

\* line 254: vmc.tick() sends float(time.time())
Tick ==
    /\ pc = "tick"
    /\ Send(TickMsg(clock), "root")
    /\ UNCHANGED <<blendVars, blinkVars, args, clock, loopLocals, selftest>>

\* lines 256-263: the idle pose is 0 when t = 0 or idle_strength = 0, and
\* accumulators that are 0 then stay 0; otherwise they take a new value
Root ==
    /\ pc = "root"
    /\ \E p \in {IF now - start = 0 \/ args.idle_strength = 0 THEN pose ELSE tickno} :
          /\ pose' = p
          /\ Send(RootMsg("root", p, IdentityQ), "bone")
    /\ UNCHANGED <<blendVars, blinkVars, args, clock, start, now, next_ok,
                   last_time, frame_dt, tickno, selftest, hb_due>>

\* line 264; --head-bone keeps its default
Bone ==
    /\ pc = "bone"
    /\ Send(BoneMsg("Head", quat_from_euler_xyz(pose)),
            IF args.send_tracker THEN "tracker" ELSE "blend")
    /\ UNCHANGED <<blendVars, blinkVars, args, clock, loopLocals, selftest>>

\* lines 266-267
Tracker ==
    /\ pc = "tracker"
    /\ Send(TrackerMsg("Head", quat_from_euler_xyz(pose)), "blend")
    /\ UNCHANGED <<blendVars, blinkVars, args, clock, loopLocals, selftest>>

\* lines 269-278
Blend ==
    /\ pc = "blend"
    /\ apply_expression_and_blink(args.expr, args.intensity,
          compute_blink(now - start), custom_expr_key, blend_state,
          expr_alpha, primary, mirror,
          (1..(Len(BLEND_KEYS_TO_CLEAR) + 1)) \X SendOutcomes, "sleep")
    /\ ncalls' = ncalls + 1
    /\ UNCHANGED <<blinkVars, args, clock, loopLocals, selftest>>

\* lines 280-287: the [LIVE] line is console output; time.sleep(dt)
Sleep ==
    /\ pc = "sleep"
    /\ clock' = clock + Dt
    /\ pc' = "top"
    /\ UNCHANGED <<blendVars, blinkVars, args, loopLocals, primary, mirror,
                   selftest, failure, okTimes, nsent>>

NextLoop ==
    \/ SelfTest \/ Startup \/ LoopTop \/ Heartbeat \/ Tick \/ Root \/ Bone
    \/ Tracker \/ Blend \/ Sleep
SpecLoop == InitLoop /\ [][NextLoop]_vars

----------------------------------------------------------------------------
(* Properties of the blend state tracker, under SpecBlend *)
Keys == Range(BLEND_KEYS_TO_CLEAR)
PresetKeys == {"Joy", "happy", "Angry", "angry", "Sorrow", "sad", "Fun",
               "relaxed", "Surprised", "surprised"}
Called == ncalls > 0
Snaps  == clamp01(call.alpha) = One

\* C1: called on the all-zero state with an explicit key K that is not a
\* blink key, and alpha = 1, the returned state has state[K] =
\* clamp(intensity, 0, 1) and every (other) preset key at 0.
C1_ExplicitKeyStored ==
    (Called /\ call.prev = ZeroMap /\ Truthy(call.key)
        /\ call.key \notin Range(BLINK_KEYS) /\ Snaps)
    => /\ call.key \in DOMAIN blend_state
       /\ blend_state[call.key] = clamp01(call.intensity)
       /\ \A k \in PresetKeys \ {call.key} : blend_state[k] = Zero

C6_AllKeysInUnit ==
    /\ Keys \subseteq DOMAIN blend_state
    /\ Cardinality(Keys) = 18
    /\ \A k \in DOMAIN blend_state : InUnit(blend_state[k])
C6_Witness ==
    /\ ncalls = 2 /\ call.key = "MyCustomBlend" /\ call.intensity = <<3, 2>>
    /\ call.alpha = <<1, 2>>
    /\ \E k \in Keys : blend_state[k] = <<1, 4>>

\* the weight the preset named expr gives key k, 0 when it gives none
PresetWeight(expr, k) ==
    IF expr \in DOMAIN EXPRESSION_PRESETS
       /\ \E i \in 1..Len(EXPRESSION_PRESETS[expr]) : EXPRESSION_PRESETS[expr][i][1] = k
    THEN (CHOOSE pr \in Range(EXPRESSION_PRESETS[expr]) : pr[1] = k)[2]
    ELSE Zero

----------------------------------------------------------------------------
(* Properties of the blink oscillator, under SpecBlink *)
Returned == bphase \in {"ret", "ret2"}

\* C8 as stated: blink(0) = 1.0, blink(0.11) = 0.0, blink(3.2) = blink(0) and
\* the output is in [0, 1] for every t >= 0.
C8_BlinkAsStated ==
    /\ Returned => InUnit(bval)
    /\ (bphase = "ret" /\ bt = 0) => bval = One
    /\ (bphase = "ret" /\ bt = BlinkWidth) => bval = Zero
    /\ (bphase = "ret2" /\ bt = BlinkPeriod) => bval = bprev

\* C8 (amended): blink(0) = 0.0, the pulse reaching 1.0 at its midpoint
\* t = 0.055; blink(0.11) = 0.0; blink(3.2) = blink(0); the output is in
\* [0, 1] for every t >= 0.
C8_Blink ==
    /\ Returned => InUnit(bval)
    /\ (bphase = "ret" /\ bt = 0) => bval = Zero
    /\ (bphase = "ret" /\ 2 * bt = BlinkWidth) => bval = One
    /\ (bphase = "ret" /\ bt = BlinkWidth) => bval = Zero
    /\ (bphase = "ret2" /\ bt = BlinkPeriod) => bval = bprev
C8_Witness ==
    bphase = "ret2" /\ bt = BlinkPeriod /\ bval = Zero /\ bprev = Zero

----------------------------------------------------------------------------
(* Properties of the transmission loop, under SpecLoop *)
Addrs(seq) == [ j \in 1..Len(seq) |-> seq[j].addr ]
IsPrefix(a, b) == Len(a) <= Len(b) /\ a = SubSeq(b, 1, Len(a))
Occurrences(seq, m) == Cardinality({ j \in 1..Len(seq) : seq[j] = m })

\* C2: in every tick exactly one Blend/Val is sent for each of the 18
\* recognized keys, in the fixed key order, carrying the value just stored in
\* the state map, followed by exactly one Blend/Apply without arguments
\* before the tick ends.
C2_FullBatchEveryTick ==
    pc = "sleep" =>
        LET n == Len(primary) IN
        /\ n >= 19
        /\ \A j \in 1..18 :
              primary[n - 19 + j] =
                BlendMsg(BLEND_KEYS_TO_CLEAR[j], blend_state[BLEND_KEYS_TO_CLEAR[j]])
        /\ primary[n].addr = "/VMC/Ext/Blend/Apply" /\ primary[n].n = 0
        /\ Cardinality({ j \in 1..n : primary[j].addr = "/VMC/Ext/Blend/Val" }) = 18
        /\ Cardinality({ j \in 1..n : primary[j].addr = "/VMC/Ext/Blend/Apply" }) = 1
        /\ \A k \in Range(BLEND_KEYS_TO_CLEAR) :
              Cardinality({ j \in 1..n : primary[j].addr = "/VMC/Ext/Blend/Val"
                                         /\ primary[j].name = k }) = 1
C2_Witness ==
    /\ pc = "sleep" /\ tickno >= 3 /\ custom_expr_key = None /\ args.expr = "happy"
    /\ \E j \in 1..Len(primary) :
          /\ primary[j].addr = "/VMC/Ext/Blend/Val" /\ primary[j].name = "Joy"
          /\ primary[j].val \notin {Zero, One}
    /\ \E j \in 1..Len(primary) :
          /\ primary[j].addr = "/VMC/Ext/Blend/Val" /\ primary[j].name = "sad"
          /\ primary[j].val = Zero

ExpectedAddrs ==
    (IF hb_due THEN << "/VMC/Ext/OK" >> ELSE << >>)
    \o << "/VMC/Ext/T", "/VMC/Ext/Root/Pos", "/VMC/Ext/Bone/Pos" >>
    \o (IF args.send_tracker THEN << "/VMC/Ext/Tra/Pos" >> ELSE << >>)
    \o [ j \in 1..18 |-> "/VMC/Ext/Blend/Val" ]
    \o << "/VMC/Ext/Blend/Apply" >>

\* C9: one /VMC/Ext/OK is sent on entry before any other message; then each
\* tick sends [OK only if the heartbeat is due], T, Root/Pos (name "root",
\* identity quaternion), Bone/Pos, Tra/Pos iff tracker mirroring is on and
\* with the bone message's name, position and quaternion, the Blend/Val
\* batch, Blend/Apply; the messages of a tick carry that tick's time.
C9_MessageOrder ==
    /\ tickno = 0 =>
          /\ primary \in { << >>, << OkMsg >> }
          /\ nsent = Len(primary)
          /\ pc = "top" => primary = << OkMsg >>
    /\ tickno > 0 =>
          /\ IsPrefix(Addrs(primary), ExpectedAddrs)
          /\ pc \in {"sleep", "top"} => Addrs(primary) = ExpectedAddrs
          /\ \A j \in 1..Len(primary) :
                /\ primary[j].addr = "/VMC/Ext/T" => primary[j].val = <<now, 1>>
                /\ primary[j].addr = "/VMC/Ext/Root/Pos" =>
                      primary[j].name = "root" /\ primary[j].q = IdentityQ
                /\ primary[j].addr = "/VMC/Ext/Tra/Pos" =>
                      /\ j > 1
                      /\ primary[j - 1].addr = "/VMC/Ext/Bone/Pos"
                      /\ primary[j] = [primary[j - 1] EXCEPT !.addr = "/VMC/Ext/Tra/Pos"]
C9_Witness ==
    /\ pc = "sleep" /\ hb_due /\ args.send_tracker /\ Len(primary) = 24
    /\ primary[1] = OkMsg /\ primary[5].addr = "/VMC/Ext/Tra/Pos"
    /\ primary[5].q.kind = "euler"

C10_State ==
    /\ (pc = "raised") <=> (failure.leg # "none")
    /\ failure.leg = "selftest" => nsent = 0 /\ primary = << >> /\ mirror = << >>
    /\ failure.leg = "primary" =>
          Occurrences(primary, failure.msg) = 0 /\ Occurrences(mirror, failure.msg) = 0
    /\ failure.leg = "mirror" =>
          /\ Occurrences(primary, failure.msg) = 1
          /\ primary[Len(primary)] = failure.msg
          /\ Occurrences(mirror, failure.msg) = 0
    /\ IF MirrorOn THEN IsPrefix(mirror, primary) ELSE mirror = << >>

\* C10: a transport error on any send is fatal and not retried: once a send
\* has failed nothing more is sent, no later tick runs and the failed message
\* is not sent again; a message whose primary send failed is not sent to the
\* mirror either.
C10_FatalNoRetry ==
    /\ []C10_State
    /\ [][pc = "raised" => UNCHANGED vars]_vars
C10_Witness ==
    /\ pc = "raised" /\ failure.leg = "primary" /\ MirrorOn /\ tickno >= 2
    /\ failure.msg.addr = "/VMC/Ext/Blend/Val" /\ failure.msg.name = "Joy"
    /\ Len(mirror) = Len(primary) /\ Len(primary) > 4

====
